---- MODULE Spec2Model ----
(***************************************************************************)
(* Model of the Randomizer League cog of Gumo (src/gumo/modules/league.py) *)
(* and of the reconciliation helpers of src/gumo/api/sheet.py.             *)
(*                                                                         *)
(* Time is counted in 21:00 Eastern ticks: `dow` is the Python weekday of  *)
(* the last 21:00 that passed (Thursday = 3, Friday = 4) and `week` is the *)
(* index of the league week that started at the last Friday 21:00, so the  *)
(* week key "YYYY-MM-DD" of league.py is the integer `week` here.          *)
(*                                                                         *)
(* The two scheduled actions are discord.ext.tasks loops.  A loop calls    *)
(* its coroutine at every tick; when the coroutine raises, the loop calls  *)
(* the registered error handler and then re-raises, which ends the loop's  *)
(* task.  The cog starts each loop once, in __init__, and never again.     *)
(***************************************************************************)
EXTENDS Integers, FiniteSets, Sequences, Bags, TLC

\* ------------------------------------------------------------------ bounds
MaxWeek == 1
MaxCommands == 2
MaxDays == 15
MaxSheets == 3
MaxFraction == 2
MaxYears == 1
MaxPosts == 4
MaxThreshold == 3

\* --------------------------------------------------------- program values
THURSDAY == 3
FRIDAY == 4
SATURDAY == FRIDAY + 1
WEDNESDAY == THURSDAY - 1

\* Names on the "Names" worksheet, and the Discord users that can run commands.
Runners == {"alice"}
Users == {"alice", "carol"}

Loops == {"wr", "rm"}
Procs == {"load", "wr", "rm", "adm"}
Handlers == {1, 2}

None == 0
NoParams ==
  [path |-> {}, key_mode |-> "", var |-> "", pool_preset |-> "", spawn |-> "", relics |-> "",
   cell_freq |-> ""]
NoRequest == [seed_name |-> None, week |-> -1, stored |-> None, params |-> NoParams]
NoArtifact == [seed_header |-> None, week |-> -1, stored |-> None]

\* The channel of the emoji chain cog when nothing was posted in it.
NoChat == [messages |-> <<>>, threshold |-> 0]

VARIABLES
  week,                  \* index of the current league week
  dow,                   \* weekday of the last 21:00 that passed
  settings,              \* rows of the league_settings table
  seed_data,             \* self._seed_data
  active_season_number,  \* self._active_season_number (None until first refresh)
  ready,                 \* self.ready (asyncio.Event)
  ledger,                \* rows of the "S<n> Raw Data" worksheet, a bag
  channel,               \* messages sent to the league channel
  pc,                    \* position of cog_load, the two loops and the admin command
  req,                   \* _league_seed's request in flight, per caller
  loop,                  \* locals of the running firing of each loop, and its history
  sub,                   \* the handlers of the commands: what each was asked and answered
  submitted,             \* history: (user, week) pairs whose submit appended a row and ended
  budget,                \* commands still allowed by the bounds
  clock,                 \* two Eastern wall-clock instants and their week keys
  worksheets,            \* the titles of the spreadsheet's worksheets, in their order
  chat                   \* a text channel and the emoji chain cog's handlers on it

vars == <<week, dow, settings, seed_data, active_season_number, ready, ledger,
          channel, pc, req, loop, sub, submitted, budget, clock, worksheets, chat>>

\* --------------------------------------------------------------- week clock

\* get_week_start_date(date - timedelta(hours=1)) for a date on Friday at or after
\* 21:00: the week that closed at this Friday's 21:00.
ClosingWeek(w) == w - 1

\* get_week_start_date(date + timedelta(days=7))
NextWeek(w) == w + 1

\* str(random.Random(week_start_date).randint(1, 10**9)): a fixed function of the
\* week key with values in 1..10^9, taken to be injective on the weeks of a run.
DerivedSeedName_Unseeded(w) == (((dow + 1) * 48271) % 1000000000) + 1

DerivedSeedName(w) == (((w + 1) * 48271) % 1000000000) + 1

\* ----------------------------------------------------------- week start date

\* An instant of Eastern wall-clock time (datetime.now(EASTERN_TZ)): a day, counted
\* from a Monday so that date.weekday() is day % 7, and the second of that day.
\* Subtracting a timedelta from such a datetime is arithmetic on the wall clock.
BoundaryHours == 21
DaySeconds == 24 * 3600
Instant(d, sec) == [day |-> d, sec |-> sec]
Seconds(t) == t.day * DaySeconds + t.sec
weekday(t) == t.day % 7

\* date - timedelta(hours=h)
MinusHours(t, h) ==
  Instant((Seconds(t) - h * 3600) \div DaySeconds, (Seconds(t) - h * 3600) % DaySeconds)

\* (date.weekday() - 4 + 7) % 7
DaysSinceFriday_NoWrap(wd) == wd - FRIDAY

DaysSinceFriday(wd) == (wd - FRIDAY + 7) % 7

\* date = date - timedelta(hours=21)
ShiftToBoundary_None(t) == t

ShiftToBoundary(t) == MinusHours(t, BoundaryHours)

\* get_week_start_date(date): the date of last_friday; strftime('%Y-%m-%d') names a
\* date by its year, month and day, so the key is the date itself, here its day.
get_week_start_date(t) ==
  ShiftToBoundary(t).day - DaysSinceFriday(weekday(ShiftToBoundary(t)))

\* The instants of a run of the week clock: the days of a little more than two weeks,
\* and on each day midnight, the two ends of the hour that is repeated when the
\* clocks are set back, the second before 21:00, 21:00, and the last second.
ClockDays == 7..(7 + MaxDays)
ClockSeconds == {0, 3600, 2 * 3600 - 1, BoundaryHours * 3600 - 1, BoundaryHours * 3600, DaySeconds - 1}
Instants == {Instant(d, sec) : d \in ClockDays, sec \in ClockSeconds}

\* get_current_week_start_date() at instant t, after one at instant p.
ClockAt(p, t) ==
  [prev |-> p, prevKey |-> get_week_start_date(p), now |-> t, key |-> get_week_start_date(t)]

\* ------------------------------------------------------------ seed provisioner

\* A row of league_settings(date, name, value).
SettingRow(w, n, v) == [date |-> w, name |-> n, value |-> v]

\* SELECT * FROM league_settings WHERE date = ? (and DELETE ... WHERE date = ?)
SettingRows_All(table, w) == table

SettingRows(table, w) == {r \in table : r.date = w}

\* The value of the seed_name row of week w, None when there is no such row:
\* seed_settings.pop('seed_name', None) in _league_seed, fetchone() in should_extend_week.
StoredSeedName(table, w) ==
  LET rows == {r \in SettingRows(table, w) : r.name = "seed_name"}
  IN IF rows = {} THEN None ELSE (CHOOSE r \in rows : TRUE).value

\* seed_settings.pop('seed_name', None) or str(random.Random(week_start_date).randint(1, 10**9))
SeedNameFor_Derived(stored, w) == DerivedSeedName(w)

SeedNameFor(stored, w) == IF stored # None THEN stored ELSE DerivedSeedName(w)

\* seed_settings = {s['name']: s['value'] for s in seed_settings if not ...}: the
\* value of the option n of week w, handed to get_seed as a keyword; "" stands for an
\* option without a row, which get_seed receives as None.
Setting(table, w, n) ==
  LET rows == {r \in SettingRows(table, w) : r.name = n}
  IN IF rows = {} THEN "" ELSE (CHOOSE r \in rows : TRUE).value

\* logic_mode = logic_mode or "Standard", and so on: x or default
Or_Default(x, default) == default

Or(x, default) == IF x = "" THEN default ELSE x

\* models.KEY_MODES, GOAL_MODES, ITEM_POOLS: the option's name to the API's code
KEY_MODES(k) == IF k = "None" THEN "Default" ELSE k
GOAL_MODES(g) ==
  CASE g = "None" -> ""
    [] g = "Force Trees" -> "ForceTrees"
    [] g = "World Tour" -> "WorldTour"
    [] g = "Force Maps" -> "ForceMaps"
    [] g = "Warmth Frags" -> "WarmthFrags"
    [] OTHER -> g
ITEM_POOLS(i) == i

\* PATHS_INHERITENCE[logic_mode], for the logic modes Casual, Standard and Expert
CasualPaths == {"casual-core", "casual-dboost"}
StandardPaths ==
  CasualPaths \cup {"standard-core", "standard-dboost", "standard-lure", "standard-abilities"}
ExpertPaths ==
  StandardPaths \cup {"expert-core", "expert-dboost", "expert-lure", "expert-abilities", "dbash"}
PATHS_INHERITENCE(logic_mode) ==
  CASE logic_mode = "Casual" -> CasualPaths
    [] logic_mode = "Standard" -> StandardPaths
    [] OTHER -> ExpertPaths

\* _get_seed_data: the parameters of the request, as they are written in the URL,
\* but for 'seed' (see ApiSeedParam) and for the variations.  'relics' is added only
\* if goal_mode == "World Tour"; "" stands for a parameter that is not sent.
SeedParams(table, w) ==
  LET logic_mode == Or(Setting(table, w, "logic_mode"), "Standard")
      key_mode == Or(Setting(table, w, "key_mode"), "Clues")
      goal_mode == Or(Setting(table, w, "goal_mode"), "Force Trees")
      spawn == Or(Setting(table, w, "spawn"), "Glades")
      item_pool == Or(Setting(table, w, "item_pool"), "Standard")
      relic_count == Or(Setting(table, w, "relic_count"), "8")
  IN [path |-> PATHS_INHERITENCE(logic_mode),
      key_mode |-> KEY_MODES(key_mode),
      var |-> GOAL_MODES(goal_mode),
      pool_preset |-> ITEM_POOLS(item_pool),
      spawn |-> spawn,
      relics |-> IF goal_mode = "World Tour" THEN relic_count ELSE "",
      cell_freq |-> IF logic_mode = "Casual" THEN "20"
                    ELSE IF logic_mode = "Standard" THEN "40" ELSE ""]

\* _league_seed up to the API call: the request built from the rows of week w.  The
\* field stored keeps what the seed_name row held when the rows were read.
LeagueSeedRequest(w, table) ==
  [seed_name |-> SeedNameFor(StoredSeedName(table, w), w), week |-> w,
   stored |-> StoredSeedName(table, w), params |-> SeedParams(table, w)]

\* _get_seed_data: seed_name = seed_name or str(random.randint(1, 10**9)), the value
\* sent as the 'seed' parameter; rnd is what the unseeded generator would give.
RandomNames == {1, 1000000000}
ApiSeedParam(seed_name, rnd) == IF seed_name # None THEN seed_name ELSE rnd

\* api_client.get_seed: the artifact is a function of the parameters sent; its
\* header names the seed.
get_seed(request, rnd) ==
  [seed_header |-> ApiSeedParam(request.seed_name, rnd), week |-> request.week,
   stored |-> request.stored]

\* should_extend_week(date) with current = cur: row is not None and row[0] == current_seed_name
ExtendsWeek_AnyRow(row, current_seed_name) == row # None

ExtendsWeek(row, current_seed_name) == row # None /\ row = current_seed_name

should_extend_week(cur, table) ==
  ExtendsWeek(StoredSeedName(table, NextWeek(cur)), DerivedSeedName(cur))

\* INSERT INTO league_settings (date, name, value) VALUES (?, ?, ?)
\*   ON CONFLICT(date, name) DO UPDATE SET value = excluded.value
\*   ON CONFLICT(date, value) DO NOTHING
\* on a table that is unique by (date, name) and by (date, value), the two conflict
\* targets of the statement.  The rows the statement conflicts with:
NameConflicts(table, row) == {r \in table : r.date = row.date /\ r.name = row.name}
ValueConflicts(table, row) == {r \in table : r.date = row.date /\ r.value = row.value}

\* DO UPDATE rewrites the row of the same name; the update fails with a constraint
\* error when another name of the week already holds the value.
UpsertRaises(table, row) ==
  NameConflicts(table, row) # {} /\ ValueConflicts(table, row) \ NameConflicts(table, row) # {}

Upsert(table, row) ==
  IF NameConflicts(table, row) # {}
    THEN IF UpsertRaises(table, row) THEN table
         ELSE (table \ NameConflicts(table, row)) \cup {row}
    ELSE IF ValueConflicts(table, row) # {} THEN table
         ELSE table \cup {row}

\* connection.executemany(query, settings): the statement runs once per entry, in the
\* order of the command's options.  A statement that raises ends the call; the
\* connection commits each statement by itself, so the rows written before stay.
\* An entry is a pair <<name, value>>.
RECURSIVE ManyRaises(_, _, _)
ManyRaises(table, w, entries) ==
  IF entries = <<>> THEN FALSE
  ELSE LET row == SettingRow(w, Head(entries)[1], Head(entries)[2])
       IN UpsertRaises(table, row) \/ ManyRaises(Upsert(table, row), w, Tail(entries))

RECURSIVE UpsertMany(_, _, _)
UpsertMany(table, w, entries) ==
  IF entries = <<>> THEN table
  ELSE LET row == SettingRow(w, Head(entries)[1], Head(entries)[2])
       IN IF UpsertRaises(table, row) THEN table
          ELSE UpsertMany(Upsert(table, row), w, Tail(entries))

\* self._seed_data = await self._league_seed() when the call raises: the exception
\* leaves the statement before the assignment, the attribute keeps its value.
CacheAfterFailure_Cleared(cached) == NoArtifact

CacheAfterFailure(cached) == cached

\* self._active_season_number = await self._get_active_season_number() when the call
\* raises: the attribute keeps its value, and self.ready.set() is not reached.
SeasonAfterFailure_Cleared(cached) == None

SeasonAfterFailure(cached) == cached

\* ------------------------------------------------------------------ reconciler

\* Text is a sequence of characters.  int(c) of a character.
DigitChars == <<"0", "1", "2", "3", "4", "5", "6", "7", "8", "9">>
IsDigit(c) == \E i \in DOMAIN DigitChars : DigitChars[i] = c
DigitValue(c) == (CHOOSE i \in DOMAIN DigitChars : DigitChars[i] = c) - 1

\* The title "S<digits> Raw Data" of a season's ledger worksheet ("R" for the purpose).
SeasonTitle(digits) == <<"S">> \o digits \o <<" ", "R">>

\* _get_active_season_number: int(worksheets[0].title[1]), the character after the
\* first one of the first worksheet's title.  The call raises when there is no such
\* character or when it is not a digit.
SeasonRaises(ws) == ws = <<>> \/ Len(ws[1]) < 2 \/ ~IsDigit(ws[1][2])
get_active_season_number(ws) == DigitValue(ws[1][2])

SubmissionRow(w, u) == [week |-> w, date |-> "ts", runner |-> u, time |-> "time", vod |-> "vod"]

\* [week_start_date, "n/a", runner, "DNF", "n/a"]
AutoDnfRow(w, u) == [week |-> w, date |-> "n/a", runner |-> u, time |-> "DNF", vod |-> "n/a"]

\* The ISO week number the older league submit keys a cycle by,
\* (now + timedelta(days=2, hours=3)).isocalendar().week, for the cycle of index w:
\* week numbers run 1..52 and start again in the next year (a year of 52 ISO weeks).
WeeksPerYear == 52

isocalendar_week(w) == (w % WeeksPerYear) + 1

\* any(x['Runner'] == name and x['Week Number'] == week_number for x in records)
get_submissions_ByWeekNumber(w, rows) ==
  {r.runner : r \in {x \in BagToSet(rows) : isocalendar_week(x.week) = isocalendar_week(w)}}

\* _get_submissions: [r['Runner'] for r in records if r['Week'] == date]
get_submissions(w, rows) == {r.runner : r \in {x \in BagToSet(rows) : x.week = w}}

\* set(runners) ^ set(submissions)
get_missing_runners(runners, submissions) ==
  (runners \ submissions) \cup (submissions \ runners)

\* _submit(*rows): append_rows
AppendRows(rows, new) == rows (+) SetToBag(new)

RealRows(w, u) == CopiesIn(SubmissionRow(w, u), ledger)
AutoRows(w, u) == CopiesIn(AutoDnfRow(w, u), ledger)

\* ------------------------------------------------------------------------ Init

\* Locals of one firing of a loop (week, ext, submissions, runners) and the history
\* of the firing: its attempts, how many raised, what it changed.
\* landed: an append_rows call of the firing wrote its rows and then raised.
IdleLoop ==
  [attempt |-> 0, week |-> 0, ext |-> "unknown", row |-> None, current_seed_name |-> None,
   submissions |-> {}, runners |-> {},
   missing |-> {}, computed |-> FALSE,
   fired |-> FALSE, raised |-> 0, dnf |-> "none", refreshSawDnf |-> "none",
   provisioned |-> FALSE, appended |-> {}, landed |-> FALSE, sent |-> 0,
   returned |-> FALSE]

\* What a command's error handler did: the message it sent to the user ("none" when
\* it sent nothing) and whether it logged the error.
NoReply == [message |-> "none", logged |-> FALSE]

\* league_submit_error: if isinstance(error, BadTimeArgumentFormat): send "Invalid
\* time format"; otherwise logger.error(...) and nothing else.
league_submit_error(error) ==
  IF error = "BadTimeArgumentFormat"
    THEN [message |-> "Invalid time format", logged |-> FALSE]
    ELSE [message |-> "none", logged |-> TRUE]

\* seed_error: logger.error(message, exc_info=error); followup.send(message)
seed_error(error) == [message |-> "An occured while generating the seed", logged |-> TRUE]

IdleHandler ==
  [cmd |-> "none", pc |-> "idle", user |-> "alice", week |-> 0, after |-> FALSE,
   result |-> "none", reads |-> "none", spoiler |-> NoArtifact, listed |-> {},
   timer |-> <<>>, recorded |-> <<>>, reply |-> NoReply]

ProgramInit ==
  /\ week = 0
  /\ dow = THURSDAY    \* the bot is started between Thursday 21:00 and Friday 21:00
  /\ settings = {}
  /\ seed_data = NoArtifact
  /\ active_season_number = None
  /\ ready = FALSE
  /\ ledger = EmptyBag
  /\ channel = <<>>
  /\ pc = [p \in Procs |-> IF p = "load" THEN "seed_read" ELSE "idle"]
  /\ req = [p \in Procs |-> NoRequest]
  /\ loop = [a \in Loops |-> IdleLoop]
  /\ sub = [h \in Handlers |-> IdleHandler]
  /\ submitted = {}
  /\ budget = MaxCommands

Init ==
  /\ ProgramInit
  /\ clock = ClockAt(Instant(7, 0), Instant(7, 0))
  /\ worksheets = <<SeasonTitle(<<"1">>)>>
  /\ chat = NoChat

\* ------------------------------------------------------------------- the clock

\* The 21:00 ticks of Sunday to Wednesday are left out: the loops test the weekday
\* against Thursday and Friday only, so those ticks act as Saturday's does.
NextDow == IF dow = SATURDAY THEN THURSDAY ELSE (dow + 1) % 7
NextTickWeek == IF NextDow = FRIDAY THEN week + 1 ELSE week

\* A loop sleeping until its next 21:00 (tasks.loop(time=time(hour=21, ...))).
Sleeping(a) == pc[a] = "idle"

\* The weekday a loop's coroutine acts on: _week_refresh returns unless
\* date.weekday() == 4, _reminder unless date.weekday() == 3.
FiringDay_Friday(a) == FRIDAY

FiringDay(a) == IF a = "wr" THEN FRIDAY ELSE THURSDAY

\* A coroutine that passed its weekday test goes on to its first await:
\* _refresh_cached_data in _week_refresh, should_extend_week in _reminder.
FirstAwait(a) == IF a = "wr" THEN "seed_read" ELSE "extend"

\* The locals of an attempt that starts in week w.
Started(l, w) ==
  [l EXCEPT !.week = w, !.ext = "unknown", !.row = None, !.current_seed_name = None,
            !.submissions = {}, !.runners = {},
            !.missing = {}, !.computed = FALSE,
            !.fired = TRUE, !.dnf = "pending", !.refreshSawDnf = "none"]

\* 21:00 Eastern passes: every loop that is sleeping calls its coroutine, which
\* returns at once unless the day is its firing day.  A loop whose task has ended
\* ("stopped") is not called.
Tick ==
  /\ pc["wr"] \in {"idle", "stopped"}
  /\ pc["rm"] \in {"idle", "stopped", "wait_ready"}
  /\ pc["load"] \in {"loaded", "load_failed"}
  /\ pc["adm"] = "idle"
  /\ \A h \in Handlers : sub[h].pc = "idle"
  /\ NextTickWeek <= MaxWeek
  /\ dow' = NextDow
  /\ week' = NextTickWeek
  /\ pc' = [p \in Procs |->
              IF p \in Loops /\ Sleeping(p) /\ NextDow = FiringDay(p)
                THEN FirstAwait(p) ELSE pc[p]]
  /\ loop' = [a \in Loops |->
                IF ~Sleeping(a) THEN loop[a]
                ELSE IF NextDow = FiringDay(a)
                  THEN Started([IdleLoop EXCEPT !.attempt = 1], NextTickWeek)
                  ELSE [IdleLoop EXCEPT !.attempt = 1, !.returned = TRUE]]
  /\ sub' = [h \in Handlers |-> IdleHandler]
  /\ UNCHANGED <<settings, seed_data, active_season_number, ready, ledger, channel,
                 req, submitted, budget>>
  /\ UNCHANGED <<clock, worksheets, chat>>

\* ---------------------------------------------------- loops: return, raise, retry

\* Where a loop goes when an attempt raised: the first attempt's exception reaches
\* the error handler, which logs and sleeps 120 s; the retry's exception is caught
\* and logged by the handler, the handler returns and the loop's task ends.
AfterRaise_Again(attempt) == "backoff"

AfterRaise(attempt) == IF attempt = 1 THEN "backoff" ELSE "stopped"

\* Where a loop goes when an attempt returned: the first attempt returns to the
\* loop, which sleeps until the next tick; the retry returns to the error handler,
\* after which the loop's task ends.
AfterReturn(attempt) == IF attempt = 1 THEN "idle" ELSE "stopped"

Return(a, l) ==
  /\ pc' = [pc EXCEPT ![a] = AfterReturn(l.attempt)]
  /\ loop' = [loop EXCEPT ![a] = [l EXCEPT !.returned = TRUE]]

Raise(a, l) ==
  /\ pc' = [pc EXCEPT ![a] = AfterRaise(l.attempt)]
  /\ loop' = [loop EXCEPT ![a] = [l EXCEPT !.raised = @ + 1]]

Goto(a, label, l) ==
  /\ pc' = [pc EXCEPT ![a] = label]
  /\ loop' = [loop EXCEPT ![a] = l]


\* _week_refresh_error / _reminder_error after asyncio.sleep(120): await self._<loop>()
\* The coroutine runs again from its first line, 120 s into the same day.
Retry(a) ==
  /\ pc[a] = "backoff"
  /\ IF dow = FiringDay(a)
       THEN Goto(a, FirstAwait(a), Started([loop[a] EXCEPT !.attempt = @ + 1], week))
       ELSE Return(a, [loop[a] EXCEPT !.attempt = @ + 1])
  /\ UNCHANGED <<week, dow, settings, seed_data, active_season_number, ready, ledger,
                 channel, req, sub, submitted, budget>>
  /\ UNCHANGED <<clock, worksheets, chat>>

\* ------------------------------------------------------------ _week_refresh

\* _refresh_cached_data -> _league_seed: the settings of the current week are read
WrSeedRead ==
  /\ pc["wr"] = "seed_read"
  /\ req' = [req EXCEPT !["wr"] = LeagueSeedRequest(week, settings)]
  /\ Goto("wr", "seed_api", [loop["wr"] EXCEPT !.refreshSawDnf = loop["wr"].dnf])
  /\ UNCHANGED <<week, dow, settings, seed_data, active_season_number, ready, ledger,
                 channel, sub, submitted, budget>>
  /\ UNCHANGED <<clock, worksheets, chat>>

\* self._seed_data = await self._league_seed()
WrSeedApi ==
  /\ pc["wr"] = "seed_api"
  /\ \/ /\ \E rnd \in RandomNames : seed_data' = get_seed(req["wr"], rnd)
        /\ Goto("wr", "season", [loop["wr"] EXCEPT !.provisioned = TRUE])
     \/ /\ Raise("wr", loop["wr"])
        /\ seed_data' = CacheAfterFailure(seed_data)
  /\ req' = [req EXCEPT !["wr"] = NoRequest]
  /\ UNCHANGED <<week, dow, settings, active_season_number, ready, ledger, channel,
                 sub, submitted, budget>>
  /\ UNCHANGED <<clock, worksheets, chat>>

\* self._active_season_number = await self._get_active_season_number(); self.ready.set()
WrSeason ==
  /\ pc["wr"] = "season"
  /\ \/ /\ ~SeasonRaises(worksheets)
        /\ active_season_number' = get_active_season_number(worksheets)
        /\ ready' = TRUE
        /\ Goto("wr", "extend", loop["wr"])
     \/ /\ Raise("wr", loop["wr"])
        /\ active_season_number' = SeasonAfterFailure(active_season_number)
        /\ UNCHANGED ready
  /\ UNCHANGED <<week, dow, settings, seed_data, ledger, channel, req, sub, submitted, budget>>
  /\ UNCHANGED <<clock, worksheets, chat>>

\* if await should_extend_week(date - timedelta(hours=1)): return
WrSkipsForExtension_Never(ext) == FALSE

WrSkipsForExtension(ext) == ext

WrExtend ==
  /\ pc["wr"] = "extend"
  /\ LET cur == ClosingWeek(loop["wr"].week)
         ext == should_extend_week(cur, settings)
         l == [loop["wr"] EXCEPT !.ext = IF ext THEN "yes" ELSE "no",
                                 !.row = StoredSeedName(settings, NextWeek(cur)),
                                 !.current_seed_name = DerivedSeedName(cur)]
     IN IF WrSkipsForExtension(ext)
          THEN Return("wr", [l EXCEPT !.dnf = "skipped"])
          ELSE Goto("wr", "subs", l)
  /\ UNCHANGED <<week, dow, settings, seed_data, active_season_number, ready, ledger,
                 channel, req, sub, submitted, budget>>
  /\ UNCHANGED <<clock, worksheets, chat>>

\* submissions = await self._get_submissions(week_start_date); if not submissions: return
NoSubmissions_Never(submissions) == FALSE

NoSubmissions(submissions) == submissions = {}

WrSubs ==
  /\ pc["wr"] = "subs"
  /\ \/ /\ active_season_number # None
        /\ LET s == get_submissions(ClosingWeek(loop["wr"].week), ledger)
               l == [loop["wr"] EXCEPT !.submissions = s]
           IN IF NoSubmissions(s)
                THEN Return("wr", [l EXCEPT !.dnf = "skipped"])
                ELSE Goto("wr", "submit", l)
     \/ /\ Raise("wr", loop["wr"])
  /\ UNCHANGED <<week, dow, settings, seed_data, active_season_number, ready, ledger,
                 channel, req, sub, submitted, budget>>
  /\ UNCHANGED <<clock, worksheets, chat>>

\* runners = await self._get_runners(); missing_runners = set(runners) ^ set(submissions);
\* await self._submit(*missing_submissions).  The roster does not change, so the read
\* of the roster is taken together with the append.
WrSubmit ==
  /\ pc["wr"] = "submit"
  /\ \/ /\ LET missing == get_missing_runners(Runners, loop["wr"].submissions)
               w == ClosingWeek(loop["wr"].week)
           IN /\ ledger' = AppendRows(ledger, {AutoDnfRow(w, r) : r \in missing})
              /\ Return("wr", [loop["wr"] EXCEPT !.runners = Runners, !.missing = missing,
                                                 !.computed = TRUE,
                                                 !.appended = missing, !.dnf = "done"])
     \/ /\ Raise("wr", loop["wr"])
        /\ UNCHANGED ledger
  /\ UNCHANGED <<week, dow, settings, seed_data, active_season_number, ready, channel,
                 req, sub, submitted, budget>>
  /\ UNCHANGED <<clock, worksheets, chat>>

\* await self._submit(*missing_submissions) when append_rows raises after the
\* spreadsheet took the rows (the response is lost): the rows are in the ledger and
\* the exception reaches _week_refresh_error, which runs the coroutine again.
WrSubmitLost ==
  /\ pc["wr"] = "submit"
  /\ LET missing == get_missing_runners(Runners, loop["wr"].submissions)
         w == ClosingWeek(loop["wr"].week)
     IN /\ ledger' = AppendRows(ledger, {AutoDnfRow(w, r) : r \in missing})
        /\ Raise("wr", [loop["wr"] EXCEPT !.runners = Runners, !.missing = missing,
                                          !.computed = TRUE,
                                          !.appended = missing, !.landed = TRUE])
  /\ UNCHANGED <<week, dow, settings, seed_data, active_season_number, ready, channel,
                 req, sub, submitted, budget>>
  /\ UNCHANGED <<clock, worksheets, chat>>



\* ------------------------------------------------------------------ _reminder

\* if await should_extend_week(date): return
RmExtend ==
  /\ pc["rm"] = "extend"
  /\ LET cur == loop["rm"].week
         ext == should_extend_week(cur, settings)
         l == [loop["rm"] EXCEPT !.ext = IF ext THEN "yes" ELSE "no",
                                 !.row = StoredSeedName(settings, NextWeek(cur)),
                                 !.current_seed_name = DerivedSeedName(cur)]
     IN IF ext THEN Return("rm", l) ELSE Goto("rm", "subs", l)
  /\ UNCHANGED <<week, dow, settings, seed_data, active_season_number, ready, ledger,
                 channel, req, sub, submitted, budget>>
  /\ UNCHANGED <<clock, worksheets, chat>>

\* submissions = await self._get_submissions(week_start_date); if not submissions: return
\* and await self.ready.wait(), which does not suspend when the event is set.
\* The worksheet is named after self._active_season_number: while that is None the
\* worksheet "SNone Raw Data" does not exist and the call raises.
RmSubs ==
  /\ pc["rm"] = "subs"
  /\ \/ /\ active_season_number # None
        /\ LET s == get_submissions(loop["rm"].week, ledger)
               l == [loop["rm"] EXCEPT !.submissions = s]
           IN IF NoSubmissions(s) THEN Return("rm", l)
              ELSE Goto("rm", IF ready THEN "runners" ELSE "wait_ready", l)
     \/ /\ active_season_number = None
        /\ Raise("rm", loop["rm"])
     \/ /\ active_season_number # None
        /\ Raise("rm", loop["rm"])
  /\ UNCHANGED <<week, dow, settings, seed_data, active_season_number, ready, ledger,
                 channel, req, sub, submitted, budget>>
  /\ UNCHANGED <<clock, worksheets, chat>>

\* await self.ready.wait(), suspended until the event is set.  _refresh_cached_data
\* sets the event in the step that stores the season number, and RmSubs raises while
\* the season number is None, so the reminder is never suspended here: the action is
\* never enabled and Next leaves it out.
RmWaitReady ==
  /\ pc["rm"] = "wait_ready"
  /\ ready
  /\ Goto("rm", "runners", loop["rm"])
  /\ UNCHANGED <<week, dow, settings, seed_data, active_season_number, ready, ledger,
                 channel, req, sub, submitted, budget>>
  /\ UNCHANGED <<clock, worksheets, chat>>

\* runners = await self._get_runners(); missing_runners = ...; if not missing_runners: return
RmRunners ==
  /\ pc["rm"] = "runners"
  /\ \/ /\ LET missing == get_missing_runners(Runners, loop["rm"].submissions)
               l == [loop["rm"] EXCEPT !.runners = Runners, !.missing = missing,
                                       !.computed = TRUE]
           IN IF missing = {} THEN Return("rm", l) ELSE Goto("rm", "send", l)
     \/ /\ Raise("rm", loop["rm"])
  /\ UNCHANGED <<week, dow, settings, seed_data, active_season_number, ready, ledger,
                 channel, req, sub, submitted, budget>>
  /\ UNCHANGED <<clock, worksheets, chat>>

\* The reminder text: the mentions of the missing runners and the deadline, 21:00 of
\* the day after the one the message is composed on (the next tick).
Reminder(l) ==
  [week |-> l.week, members |-> l.missing, deadline |-> <<NextTickWeek, NextDow>>]

\* await self.bot.get_channel(ORI_RANDO_LEAGUE_CHANNEL_ID).send(reminder)
RmSend ==
  /\ pc["rm"] = "send"
  /\ \/ /\ channel' = Append(channel, Reminder(loop["rm"]))
        /\ Return("rm", [loop["rm"] EXCEPT !.sent = @ + 1])
     \/ /\ Raise("rm", loop["rm"])
        /\ UNCHANGED channel
  /\ UNCHANGED <<week, dow, settings, seed_data, active_season_number, ready, ledger,
                 req, sub, submitted, budget>>
  /\ UNCHANGED <<clock, worksheets, chat>>

\* ------------------------------------- cog_load and the admin commands: the refresh

\* Where a caller of _refresh_cached_data other than the week-refresh goes when the
\* refresh is done, and when it raised.
RefreshDone(p) == IF p = "load" THEN "loaded" ELSE "idle"
RefreshRaised(p) == IF p = "load" THEN "load_failed" ELSE "idle"

RefreshSeedRead(p) ==
  /\ p \in {"load", "adm"}
  /\ pc[p] = "seed_read"
  /\ req' = [req EXCEPT ![p] = LeagueSeedRequest(week, settings)]
  /\ pc' = [pc EXCEPT ![p] = "seed_api"]
  /\ UNCHANGED <<week, dow, settings, seed_data, active_season_number, ready, ledger,
                 channel, loop, sub, submitted, budget>>
  /\ UNCHANGED <<clock, worksheets, chat>>

RefreshSeedApi(p) ==
  /\ p \in {"load", "adm"}
  /\ pc[p] = "seed_api"
  /\ \/ /\ \E rnd \in RandomNames : seed_data' = get_seed(req[p], rnd)
        /\ pc' = [pc EXCEPT ![p] = "season"]
     \/ /\ pc' = [pc EXCEPT ![p] = RefreshRaised(p)]
        /\ seed_data' = CacheAfterFailure(seed_data)
  /\ req' = [req EXCEPT ![p] = NoRequest]
  /\ UNCHANGED <<week, dow, settings, active_season_number, ready, ledger, channel,
                 loop, sub, submitted, budget>>
  /\ UNCHANGED <<clock, worksheets, chat>>

RefreshSeason(p) ==
  /\ p \in {"load", "adm"}
  /\ pc[p] = "season"
  /\ \/ /\ ~SeasonRaises(worksheets)
        /\ active_season_number' = get_active_season_number(worksheets)
        /\ ready' = TRUE
        /\ pc' = [pc EXCEPT ![p] = RefreshDone(p)]
     \/ /\ pc' = [pc EXCEPT ![p] = RefreshRaised(p)]
        /\ active_season_number' = SeasonAfterFailure(active_season_number)
        /\ UNCHANGED ready
  /\ UNCHANGED <<week, dow, settings, seed_data, ledger, channel, req, loop, sub,
                 submitted, budget>>
  /\ UNCHANGED <<clock, worksheets, chat>>

\* setup: await bot.add_cog(RandomizerLeague(bot)).  add_cog awaits cog_load before it
\* registers the cog's commands, so a command is invoked only once cog_load returned.
Registered_Always == TRUE

Registered == pc["load"] = "loaded"

\* The seed names an admin may store for week w: an arbitrary one, and the derived
\* name of the week before (which extends that week).
SeedNameChoices(w) == {42} \cup (IF w > 0 THEN {DerivedSeedName(w - 1)} ELSE {})

\* league set <n>=v date=w: the upsert, then the refresh when w is the current week.
\* When the statement raises, the handler ends there: no refresh.
LeagueSet(w, n, v) ==
  /\ Registered
  /\ pc["adm"] = "idle"
  /\ budget > 0
  /\ budget' = budget - 1
  /\ settings' = Upsert(settings, SettingRow(w, n, v))
  /\ pc' = [pc EXCEPT !["adm"] =
              IF w = week /\ ~UpsertRaises(settings, SettingRow(w, n, v))
                THEN "seed_read" ELSE "idle"]
  /\ UNCHANGED <<week, dow, seed_data, active_season_number, ready, ledger, channel,
                 req, loop, sub, submitted>>
  /\ UNCHANGED <<clock, worksheets, chat>>

\* league set with several options: settings = [(week_start_date, *s) for s in
\* interaction.namespace if not s[0] == "date"], one entry per option given.
LeagueSetEntries(w, entries) ==
  /\ Registered
  /\ pc["adm"] = "idle"
  /\ budget > 0
  /\ budget' = budget - 1
  /\ settings' = UpsertMany(settings, w, entries)
  /\ pc' = [pc EXCEPT !["adm"] =
              IF w = week /\ ~ManyRaises(settings, w, entries) THEN "seed_read" ELSE "idle"]
  /\ UNCHANGED <<week, dow, seed_data, active_season_number, ready, ledger, channel,
                 req, loop, sub, submitted>>
  /\ UNCHANGED <<clock, worksheets, chat>>

\* league clear date=w
LeagueClear(w) ==
  /\ Registered
  /\ pc["adm"] = "idle"
  /\ budget > 0
  /\ SettingRows(settings, w) # {}
  /\ budget' = budget - 1
  /\ settings' = settings \ SettingRows(settings, w)
  /\ pc' = [pc EXCEPT !["adm"] = IF w = week THEN "seed_read" ELSE "idle"]
  /\ UNCHANGED <<week, dow, seed_data, active_season_number, ready, ledger, channel,
                 req, loop, sub, submitted>>
  /\ UNCHANGED <<clock, worksheets, chat>>

\* ---------------------------------------------------------------- league submit

\* value.lower() == "dnf"
Lower(c) == IF c = "D" THEN "d" ELSE IF c = "N" THEN "n" ELSE IF c = "F" THEN "f" ELSE c
IsDnf(value) == [i \in DOMAIN value |-> Lower(value[i])] = <<"d", "n", "f">>

\* int(s) of a string of digits
RECURSIVE int(_)
int(ds) == IF ds = <<>> THEN 0 ELSE 10 * int(SubSeq(ds, 1, Len(ds) - 1)) + DigitValue(ds[Len(ds)])

AllDigits(ds) == \A i \in DOMAIN ds : IsDigit(ds[i])

\* The groups of (?:([0-9]+):)?([0-9]{2}):([0-9]{2})(?:\.([0-9]+))? on a text that it
\* matches from its first to its last character; groups(default='0').  The text is
\* the part before the first "." and, when there is a ".", the digits after it; the
\* first part ends in two digits, ":" and two digits, after nothing or after digits
\* and ":".
Dots(text) == {i \in DOMAIN text : text[i] = "."}
MainPart(text) ==
  IF Dots(text) = {} THEN text
  ELSE SubSeq(text, 1, (CHOOSE i \in Dots(text) : \A j \in Dots(text) : i <= j) - 1)
FractionPart(text) == SubSeq(text, Len(MainPart(text)) + 2, Len(text))

FullMatch(text) ==
  LET main == MainPart(text)
      n == Len(main)
  IN /\ n >= 5
     /\ AllDigits(SubSeq(main, n - 4, n - 3)) /\ main[n - 2] = ":"
     /\ AllDigits(SubSeq(main, n - 1, n))
     /\ n > 5 => (n >= 7 /\ main[n - 5] = ":" /\ AllDigits(SubSeq(main, 1, n - 6)))
     /\ Dots(text) # {} => (FractionPart(text) # <<>> /\ AllDigits(FractionPart(text)))

Groups(text) ==
  LET main == MainPart(text)
      n == Len(main)
  IN [hours |-> IF n > 5 THEN SubSeq(main, 1, n - 6) ELSE <<"0">>,
      minutes |-> SubSeq(main, n - 4, n - 3),
      seconds |-> SubSeq(main, n - 1, n),
      milliseconds |-> IF Dots(text) # {} THEN FractionPart(text) ELSE <<"0">>]

\* re.match(r"^...$", value): "$" matches at the end of the value and also just
\* before a line feed that ends it, so the pattern is matched against the value or
\* against the value without its last character when that is a line feed.
Matched(value) ==
  {value} \cup (IF value # <<>> /\ value[Len(value)] = "\n"
                  THEN {SubSeq(value, 1, Len(value) - 1)} ELSE {})

\* TimeFormatTransformer.transform raises BadTimeArgumentFormat
TransformRaises(value) ==
  /\ ~IsDnf(value)
  /\ \A text \in Matched(value) :
       FullMatch(text) => (int(Groups(text).minutes) > 59 \/ int(Groups(text).seconds) > 59)

\* The timers a user may type: nothing or hours before the minutes, minutes of two
\* digits or of one, seconds, with or without the ":" between them, nothing, a
\* "." or a fraction after them, and nothing, a line feed or a letter at the end; and
\* "dnf" in some spellings.
HourTexts == {<<>>, <<"1", ":">>}
MinuteTexts == {<<"5", "9">>, <<"6", "0">>, <<"7">>}
SecondTexts == {<<"5", "9">>, <<"6", "0">>}
FractionTexts ==
  {<<>>, <<".">>} \cup {<<".">> \o SubSeq(DigitChars, 2, n + 1) : n \in 1..MaxFraction}
EndTexts == {<<>>, <<"\n">>, <<"x">>}
Timers ==
  {h \o m \o c \o sec \o f \o e :
     h \in HourTexts, m \in MinuteTexts, c \in {<<":">>, <<>>}, sec \in SecondTexts,
     f \in FractionTexts, e \in EndTexts}
  \cup {<<"d", "n", "f">>, <<"D", "N", "F">>, <<"D", "n", "f">>, <<"d", "n">>,
         <<"d", "n", "f", "\n">>}

\* A timer the transformer accepts: "59:59".
GoodTimer == <<"5", "9", ":", "5", "9">>

\* milliseconds[:3]
Take3(ds) == SubSeq(ds, 1, IF Len(ds) < 3 THEN Len(ds) ELSE 3)

\* The value transform returns for a timer it accepts that is not "dnf":
\* tuple(map(int, (hours, minutes, seconds, milliseconds))) of the groups of the match.
transform(value) ==
  LET text == CHOOSE t \in Matched(value) : FullMatch(t)
      g == Groups(text)
  IN <<int(g.hours), int(g.minutes), int(g.seconds), int(Take3(g.milliseconds))>>

\* str(n) of a natural number
RECURSIVE Digits(_)
Digits(n) ==
  IF n < 10 THEN <<DigitChars[n + 1]>> ELSE Digits(n \div 10) \o <<DigitChars[(n % 10) + 1]>>

\* "{:0<width>}".format(n): zeros on the left up to the width, never cut
ZeroPad(n, width) ==
  LET d == Digits(n)
  IN IF Len(d) >= width THEN d ELSE [i \in 1..(width - Len(d)) |-> "0"] \o d

\* "{:02}:{:02}:{:02}.{:03}".format(*timer)
FormatTimer(t) ==
  ZeroPad(t[1], 2) \o <<":">> \o ZeroPad(t[2], 2) \o <<":">> \o ZeroPad(t[3], 2)
    \o <<".">> \o ZeroPad(t[4], 3)

\* timer = "DNF" if timer == "DNF" else "{:02}:{:02}:{:02}.{:03}".format(*timer): the
\* fourth cell of the row league_submit appends, for the timer the user typed.
RecordedTimer(value) ==
  IF IsDnf(value) THEN <<"D", "N", "F">> ELSE FormatTimer(transform(value))

\* if interaction.user.name in await self._get_submissions(week_start_date)
AlreadySubmitted_Never(u, names) == FALSE

AlreadySubmitted(u, names) == u \in names

\* league_submit up to the duplicate check: defer, week_start_date =
\* get_current_week_start_date(), await self._get_submissions(week_start_date).  The
\* worksheet is named after self._active_season_number, as in the reminder.
SubmitBody(h, u, value) ==
  /\ Registered
  /\ sub[h].pc = "idle"
  /\ \A g \in Handlers : g < h => sub[g].pc # "idle"
  /\ budget > 0
  /\ budget' = budget - 1
  /\ LET call == [IdleHandler EXCEPT !.cmd = "submit", !.user = u, !.week = week,
                                     !.after = <<u, week>> \in submitted,
                                     !.timer = value]
     IN \/ /\ active_season_number # None
           /\ sub' = [sub EXCEPT ![h] =
                        IF AlreadySubmitted(u, get_submissions(week, ledger))
                          THEN [call EXCEPT !.result = "already"]
                          ELSE [call EXCEPT !.pc = "append"]]
        \/ sub' = [sub EXCEPT ![h] =
                     [call EXCEPT !.result = "error", !.reply = league_submit_error("APIError")]]
  /\ UNCHANGED <<week, dow, settings, seed_data, active_season_number, ready, ledger,
                 channel, pc, req, loop, submitted>>
  /\ UNCHANGED <<clock, worksheets, chat>>

\* league_submit_error on BadTimeArgumentFormat: "Invalid time format"; the body of
\* the command has not run.
BadTimeArgument(h, u, value) ==
  /\ Registered
  /\ sub[h].pc = "idle"
  /\ budget > 0
  /\ budget' = budget - 1
  /\ sub' = [sub EXCEPT ![h] =
               [IdleHandler EXCEPT !.cmd = "submit", !.user = u, !.week = week,
                                   !.result = "invalid_time", !.timer = value,
                                   !.reply = league_submit_error("BadTimeArgumentFormat")]]
  /\ UNCHANGED <<week, dow, settings, seed_data, active_season_number, ready, ledger,
                 channel, pc, req, loop, submitted>>
  /\ UNCHANGED <<clock, worksheets, chat>>

\* league submit timer=value: the transformer runs on the argument, then the body.
LeagueSubmit(h, u, value) ==
  IF TransformRaises(value) THEN BadTimeArgument(h, u, value) ELSE SubmitBody(h, u, value)

\* league submit with a timer the transformer accepts
SubmitRead(h, u) == LeagueSubmit(h, u, GoodTimer)

\* A handler reads self._seed_data: what it finds when the attribute is still None
\* (the subscript raises, and the command's error handler runs), and whether
\* self.ready was set at the time of the read.
ReadOfCache(h, found) ==
  [h EXCEPT !.pc = "idle",
            !.result = IF seed_data = NoArtifact THEN "absent" ELSE found,
            !.reads = IF ready THEN "gated" ELSE "ungated",
            !.spoiler = seed_data,
            !.reply = IF seed_data # NoArtifact THEN NoReply
                      ELSE IF h.cmd = "seed" THEN seed_error("TypeError")
                      ELSE league_submit_error("TypeError")]

\* await self._submit([...]); the message reads self._seed_data['spoiler_url']
SubmitAppend(h) ==
  /\ sub[h].pc = "append"
  /\ \/ /\ ledger' = AppendRows(ledger, {SubmissionRow(sub[h].week, sub[h].user)})
        /\ submitted' = submitted \cup {<<sub[h].user, sub[h].week>>}
        /\ sub' = [sub EXCEPT ![h] =
                     ReadOfCache([sub[h] EXCEPT !.recorded = RecordedTimer(sub[h].timer)],
                                 "accepted")]
     \/ /\ sub' = [sub EXCEPT ![h] =
                      [@ EXCEPT !.pc = "idle", !.result = "error",
                                !.reply = league_submit_error("APIError")]]
        /\ UNCHANGED <<ledger, submitted>>
  /\ UNCHANGED <<week, dow, settings, seed_data, active_season_number, ready, channel,
                 pc, req, loop, budget>>
  /\ UNCHANGED <<clock, worksheets, chat>>

\* league seed: defer, then the reply is built from self._seed_data; it does not
\* depend on who asks.
LeagueSeed(h) ==
  /\ Registered
  /\ sub[h].pc = "idle"
  /\ budget > 0
  /\ budget' = budget - 1
  /\ sub' = [sub EXCEPT ![h] =
               ReadOfCache([IdleHandler EXCEPT !.cmd = "seed", !.week = week], "served")]
  /\ UNCHANGED <<week, dow, settings, seed_data, active_season_number, ready, ledger,
                 channel, pc, req, loop, submitted>>
  /\ UNCHANGED <<clock, worksheets, chat>>

\* ------------------------------------------------------------------------ Next

Next ==
  \/ Tick
  \/ \E a \in Loops : Retry(a)
  \/ WrSeedRead \/ WrSeedApi \/ WrSeason \/ WrExtend \/ WrSubs
  \/ WrSubmit
  \/ RmExtend \/ RmSubs \/ RmRunners \/ RmSend
  \/ \E p \in {"load", "adm"} : RefreshSeedRead(p) \/ RefreshSeedApi(p) \/ RefreshSeason(p)
  \/ \E w \in {week, NextWeek(week)} : \E v \in SeedNameChoices(w) : LeagueSet(w, "seed_name", v)
  \/ \E w \in {week, NextWeek(week)} : LeagueClear(w)
  \/ \E u \in Users : SubmitRead(1, u)
  \/ LeagueSeed(1)
  \/ \E h \in Handlers : SubmitAppend(h)

Spec == Init /\ [][Next]_vars

\* The steps of one firing of a loop: each is the return or the raise of an await of
\* the coroutine or of its error handler (asyncio.sleep(120) included).
WrStep ==
  Retry("wr") \/ WrSeedRead \/ WrSeedApi \/ WrSeason \/ WrExtend \/ WrSubs \/ WrSubmit

RmStep == Retry("rm") \/ RmExtend \/ RmSubs \/ RmRunners \/ RmSend

\* The program when every collaborator call eventually returns or raises and every
\* sleep ends: a loop that can take a step eventually takes one.
LiveSpec == Init /\ [][Next]_vars /\ WF_vars(WrStep) /\ WF_vars(RmStep)

\* The program with an append_rows whose response can be lost.
RetryNext == Next \/ WrSubmitLost

RetrySpec == Init /\ [][RetryNext]_vars

\* The bot is started on a Thursday before 21:00: __init__ starts both loops, then
\* add_cog awaits cog_load, whose collaborator calls may still be in flight when
\* 21:00 passes.
StartupInit ==
  /\ week = 0
  /\ dow = WEDNESDAY
  /\ settings = {}
  /\ seed_data = NoArtifact
  /\ active_season_number = None
  /\ ready = FALSE
  /\ ledger = EmptyBag
  /\ channel = <<>>
  /\ pc = [p \in Procs |-> IF p = "load" THEN "seed_read" ELSE "idle"]
  /\ req = [p \in Procs |-> NoRequest]
  /\ loop = [a \in Loops |-> IdleLoop]
  /\ sub = [h \in Handlers |-> IdleHandler]
  /\ submitted = {}
  /\ budget = MaxCommands
  /\ clock = ClockAt(Instant(7, 0), Instant(7, 0))
  /\ worksheets = <<SeasonTitle(<<"1">>)>>
  /\ chat = NoChat

\* 21:00 Eastern passes while cog_load is awaiting a collaborator: the loops, started
\* in __init__, call their coroutines; no command is registered yet.
StartupTick ==
  /\ pc["load"] \in {"seed_read", "seed_api", "season"}
  /\ pc["wr"] \in {"idle", "stopped"}
  /\ pc["rm"] \in {"idle", "stopped", "wait_ready"}
  /\ NextTickWeek <= MaxWeek
  /\ dow' = NextDow
  /\ week' = NextTickWeek
  /\ pc' = [p \in Procs |->
              IF p \in Loops /\ Sleeping(p) /\ NextDow = FiringDay(p)
                THEN FirstAwait(p) ELSE pc[p]]
  /\ loop' = [a \in Loops |->
                IF ~Sleeping(a) THEN loop[a]
                ELSE IF NextDow = FiringDay(a)
                  THEN Started([IdleLoop EXCEPT !.attempt = 1], NextTickWeek)
                  ELSE [IdleLoop EXCEPT !.attempt = 1, !.returned = TRUE]]
  /\ UNCHANGED <<settings, seed_data, active_season_number, ready, ledger, channel,
                 req, sub, submitted, budget>>
  /\ UNCHANGED <<clock, worksheets, chat>>

StartupNext == Next \/ StartupTick

StartupSpec == StartupInit /\ [][StartupNext]_vars

\* The bot is restarted in the first week of a cycle that an admin has extended: the
\* settings table, which is a file, holds the next week's seed_name equal to this
\* week's derived name, and the ledger, which is a spreadsheet, holds a submission of
\* the roster runner alice for this week.
ExtendedInit ==
  /\ week = -1
  /\ dow = THURSDAY
  /\ settings = {SettingRow(0, "seed_name", DerivedSeedName(-1))}
  /\ seed_data = NoArtifact
  /\ active_season_number = None
  /\ ready = FALSE
  /\ ledger = SetToBag({SubmissionRow(-1, "alice")})
  /\ channel = <<>>
  /\ pc = [p \in Procs |-> IF p = "load" THEN "seed_read" ELSE "idle"]
  /\ req = [p \in Procs |-> NoRequest]
  /\ loop = [a \in Loops |-> IdleLoop]
  /\ sub = [h \in Handlers |-> IdleHandler]
  /\ submitted = {}
  /\ budget = MaxCommands
  /\ clock = ClockAt(Instant(7, 0), Instant(7, 0))
  /\ worksheets = <<SeasonTitle(<<"1">>)>>
  /\ chat = NoChat

\* The loops and league submit; no admin command runs, so the settings stay as they
\* were at the start.
ExtendedNext ==
  \/ Tick
  \/ \E a \in Loops : Retry(a)
  \/ WrSeedRead \/ WrSeedApi \/ WrSeason \/ WrExtend \/ WrSubs
  \/ WrSubmit
  \/ RmExtend \/ RmSubs \/ RmRunners \/ RmSend
  \/ RefreshSeedRead("load") \/ RefreshSeedApi("load") \/ RefreshSeason("load")
  \/ \E u \in Users : SubmitRead(1, u)
  \/ SubmitAppend(1)

ExtendedSpec == ExtendedInit /\ [][ExtendedNext]_vars

\* ------------------------------------------------------- concurrent league submit

\* discord.py runs every interaction in a task of its own: a second league submit
\* may start while the first is suspended in one of its awaits.
ConcurrentSubmit == \E u \in Users : SubmitRead(2, u)

ConcurrentNext == Next \/ ConcurrentSubmit

ConcurrentSpec == Init /\ [][ConcurrentNext]_vars

\* ---------------------------------------------------------------- the week clock

\* Wall-clock time advances to a later instant, and the week key is computed again.
ClockAdvance ==
  /\ \E t \in Instants :
       /\ Seconds(t) > Seconds(clock.now)
       /\ clock' = ClockAt(clock.now, t)
  /\ UNCHANGED <<week, dow, settings, seed_data, active_season_number, ready, ledger,
                 channel, pc, req, loop, sub, submitted, budget, worksheets, chat>>

\* The clocks are set back on a Sunday: 01:59:59 is followed by 01:00:00.
ClockSetBack ==
  /\ weekday(clock.now) = 6
  /\ clock.now.sec = 2 * 3600 - 1
  /\ clock' = ClockAt(clock.now, Instant(clock.now.day, 3600))
  /\ UNCHANGED <<week, dow, settings, seed_data, active_season_number, ready, ledger,
                 channel, pc, req, loop, sub, submitted, budget, worksheets, chat>>

\* ------------------------------------------------------------ the admin commands

\* Who invokes a command: the application's owner, a guild member holding the league
\* admin role, a guild member without it, and a holder of the role who invokes the
\* command outside the guild (interaction.user is then a discord.User, not a Member).
Invokers == {"owner", "admin", "carol", "admin_dm"}
is_owner(u) == u = "owner"
IsMember(u) == u \in {"admin", "carol"}
get_role(u) == u \in {"admin", "admin_dm"}

\* is_league_admin_check: is_owner(user) or isinstance(user, Member) and user.get_role(...)
is_league_admin_check_Always(u) == TRUE

is_league_admin_check(u) == is_owner(u) \/ (IsMember(u) /\ get_role(u))

\* A check that returns a false value raises CheckFailure before the command's body
\* runs; cog_app_command_error answers "You don't have the permissions to use this
\* command".
CheckFailure(u, cmd) ==
  /\ Registered
  /\ sub' = [sub EXCEPT ![1] = [IdleHandler EXCEPT !.cmd = cmd, !.user = u, !.result = "denied"]]
  /\ UNCHANGED <<week, dow, settings, seed_data, active_season_number, ready, ledger,
                 channel, pc, req, loop, submitted, budget>>
  /\ UNCHANGED <<clock, worksheets, chat>>

\* league view date=w: the rows of the week, or "No settings set for week ..."
LeagueView(w) ==
  /\ Registered
  /\ sub' = [sub EXCEPT ![1] =
               [IdleHandler EXCEPT !.cmd = "view", !.week = w,
                                   !.result = IF SettingRows(settings, w) = {}
                                                THEN "no_settings" ELSE "settings",
                                   !.listed = SettingRows(settings, w)]]
  /\ UNCHANGED <<week, dow, settings, seed_data, active_season_number, ready, ledger,
                 channel, pc, req, loop, submitted, budget>>
  /\ UNCHANGED <<clock, worksheets, chat>>

\* @app_commands.check(is_league_admin_check) on league set, league view, league clear
InvokeLeagueSet(u, w, n, v) ==
  IF is_league_admin_check(u) THEN LeagueSet(w, n, v) ELSE CheckFailure(u, "set")

InvokeLeagueView(u, w) ==
  IF is_league_admin_check(u) THEN LeagueView(w) ELSE CheckFailure(u, "view")

InvokeLeagueClear(u, w) ==
  IF is_league_admin_check(u) THEN LeagueClear(w) ELSE CheckFailure(u, "clear")

\* ------------------------------------------------------------ the settings store

\* The names and values of the league set commands of a run of the settings store.
SettingNames == {"seed_name", "variation1"}
SettingValues == {42, 7}

\* The league_settings tables the bot may find when it starts: the table outlives the
\* process, and is unique by (date, name) and by (date, value).
UniqueTable(table) ==
  \A r1, r2 \in table :
    (r1.date = r2.date /\ (r1.name = r2.name \/ r1.value = r2.value)) => r1 = r2

StoredTables ==
  {t \in SUBSET {SettingRow(w, n, v) : w \in 0..1, n \in SettingNames, v \in SettingValues} :
     UniqueTable(t)}

\* The bot has started on a stored table: cog_load has returned.
StoreInit ==
  /\ week = 0
  /\ dow = THURSDAY
  /\ settings \in StoredTables
  /\ \E rnd \in RandomNames : seed_data = get_seed(LeagueSeedRequest(0, settings), rnd)
  /\ active_season_number = get_active_season_number(<<SeasonTitle(<<"1">>)>>)
  /\ ready = TRUE
  /\ ledger = EmptyBag
  /\ channel = <<>>
  /\ pc = [p \in Procs |-> IF p = "load" THEN "loaded" ELSE "idle"]
  /\ req = [p \in Procs |-> NoRequest]
  /\ loop = [a \in Loops |-> IdleLoop]
  /\ sub = [h \in Handlers |-> IdleHandler]
  /\ submitted = {}
  /\ budget = MaxCommands
  /\ clock = ClockAt(Instant(7, 0), Instant(7, 0))
  /\ worksheets = <<SeasonTitle(<<"1">>)>>
  /\ chat = NoChat

\* The option lists of a league set with two options: two names, each with a value.
EntryLists ==
  {<<<<n1, v1>>, <<n2, v2>>>> :
     n1 \in SettingNames, n2 \in SettingNames, v1 \in SettingValues, v2 \in SettingValues}
  \ {<<<<n, v1>>, <<n, v2>>>> : n \in SettingNames, v1 \in SettingValues, v2 \in SettingValues}

StoreNext ==
  \/ \E w \in {week, NextWeek(week)} : \E n \in SettingNames : \E v \in SettingValues :
       LeagueSet(w, n, v)
  \/ \E w \in {week, NextWeek(week)} : \E entries \in EntryLists : LeagueSetEntries(w, entries)
  \/ \E w \in {week, NextWeek(week)} : LeagueClear(w)
  \/ RefreshSeedRead("adm") \/ RefreshSeedApi("adm") \/ RefreshSeason("adm")

StoreSpec == StoreInit /\ [][StoreNext]_vars

\* ------------------------------------------------------------ the season number

\* The titles a spreadsheet may have: the ledgers of seasons 1, 2 and 12 and the
\* roster "Names"; its worksheets are some of them, in any order.
SheetTitles ==
  {SeasonTitle(<<"1">>), SeasonTitle(<<"2">>), SeasonTitle(<<"1", "2">>),
   <<"N", "a", "m", "e", "s">>}

WorksheetLists ==
  {ws \in UNION {[1..n -> SheetTitles] : n \in 1..MaxSheets} :
     \A i, j \in DOMAIN ws : i # j => ws[i] # ws[j]}

\* The bot starts on a spreadsheet: cog_load refreshes, admin commands refresh again.
SeasonInit ==
  /\ ProgramInit
  /\ clock = ClockAt(Instant(7, 0), Instant(7, 0))
  /\ worksheets \in WorksheetLists
  /\ chat = NoChat

SeasonNext ==
  \/ \E p \in {"load", "adm"} : RefreshSeedRead(p) \/ RefreshSeedApi(p) \/ RefreshSeason(p)
  \/ \E w \in {week, NextWeek(week)} : \E v \in SeedNameChoices(w) : LeagueSet(w, "seed_name", v)
  \/ \E w \in {week, NextWeek(week)} : LeagueClear(w)

SeasonSpec == SeasonInit /\ [][SeasonNext]_vars

\* -------------------------------------------------------- the options of the seed

\* The scalar options of league set, and for each the value an admin has stored: one
\* that is not the default.  The stored tables have a row for some of the options.
ScalarNames == {"logic_mode", "key_mode", "goal_mode", "spawn", "item_pool", "relic_count"}
StoredValue(n) ==
  CASE n = "logic_mode" -> "Expert"
    [] n = "key_mode" -> "Shards"
    [] n = "goal_mode" -> "World Tour"
    [] n = "spawn" -> "Grove"
    [] n = "item_pool" -> "Hard"
    [] n = "relic_count" -> "5"

ScalarTables ==
  {{SettingRow(0, n, StoredValue(n)) : n \in names} : names \in SUBSET ScalarNames}

\* The bot starts on a stored table; cog_load provisions the week.
ProvisionInit ==
  /\ week = 0
  /\ dow = THURSDAY
  /\ settings \in ScalarTables
  /\ seed_data = NoArtifact
  /\ active_season_number = None
  /\ ready = FALSE
  /\ ledger = EmptyBag
  /\ channel = <<>>
  /\ pc = [p \in Procs |-> IF p = "load" THEN "seed_read" ELSE "idle"]
  /\ req = [p \in Procs |-> NoRequest]
  /\ loop = [a \in Loops |-> IdleLoop]
  /\ sub = [h \in Handlers |-> IdleHandler]
  /\ submitted = {}
  /\ budget = MaxCommands
  /\ clock = ClockAt(Instant(7, 0), Instant(7, 0))
  /\ worksheets = <<SeasonTitle(<<"1">>)>>
  /\ chat = NoChat

ProvisionNext ==
  \/ RefreshSeedRead("load") \/ RefreshSeedApi("load") \/ RefreshSeason("load")
  \/ \E w \in {week, NextWeek(week)} : LeagueClear(w)
  \/ RefreshSeedRead("adm") \/ RefreshSeedApi("adm") \/ RefreshSeason("adm")

ProvisionSpec == ProvisionInit /\ [][ProvisionNext]_vars

\* The bot has started; users run league submit with the timers they type.
TimerInit ==
  /\ ProgramInit
  /\ clock = ClockAt(Instant(7, 0), Instant(7, 0))
  /\ worksheets = <<SeasonTitle(<<"1">>)>>
  /\ chat = NoChat

TimerNext ==
  \/ RefreshSeedRead("load") \/ RefreshSeedApi("load") \/ RefreshSeason("load")
  \/ \E u \in Users : \E value \in Timers : LeagueSubmit(1, u, value)
  \/ SubmitAppend(1)

TimerSpec == TimerInit /\ [][TimerNext]_vars

AdminNext ==
  \/ \E u \in Invokers : \E w \in {week, NextWeek(week)} :
       \E n \in SettingNames : \E v \in SettingValues : InvokeLeagueSet(u, w, n, v)
  \/ \E u \in Invokers : \E w \in {week, NextWeek(week)} : InvokeLeagueView(u, w)
  \/ \E u \in Invokers : \E w \in {week, NextWeek(week)} : InvokeLeagueClear(u, w)
  \/ RefreshSeedRead("adm") \/ RefreshSeedApi("adm") \/ RefreshSeason("adm")

AdminSpec == StoreInit /\ [][AdminNext]_vars

\* The bot runs over the turn of a year; runners submit in a cycle and in the cycle a
\* year later.
YearInit ==
  /\ ProgramInit
  /\ clock = ClockAt(Instant(7, 0), Instant(7, 0))
  /\ worksheets = <<SeasonTitle(<<"1">>)>>
  /\ chat = NoChat

\* n league weeks pass with no command running: one week, for the first weeks of a
\* year, or a year of weeks.  The week that closes first is closed by _week_refresh,
\* which appends its auto-DNF rows when the week has submissions, and returns or
\* fails before the append otherwise; the later weeks have no submission.
WeeksPass(n) ==
  /\ pc["load"] \in {"loaded", "load_failed"}
  /\ \A h \in Handlers : sub[h].pc = "idle"
  /\ week + n <= MaxYears * WeeksPerYear + MaxWeek
  /\ n = 1 => (week % WeeksPerYear) < MaxWeek
  /\ week' = week + n
  /\ sub' = [h \in Handlers |-> IdleHandler]
  /\ LET s == get_submissions(week, ledger)
     IN \/ /\ ~NoSubmissions(s)
           /\ ledger' = AppendRows(ledger, {AutoDnfRow(week, r) :
                                              r \in get_missing_runners(Runners, s)})
        \/ ledger' = ledger
  /\ UNCHANGED <<dow, settings, seed_data, active_season_number, ready, channel, pc, req,
                 loop, submitted, budget, clock, worksheets, chat>>

YearNext ==
  \/ RefreshSeedRead("load") \/ RefreshSeedApi("load") \/ RefreshSeason("load")
  \/ \E u \in Users : SubmitRead(1, u)
  \/ SubmitAppend(1)
  \/ \E n \in {1, WeeksPerYear} : WeeksPass(n)

YearSpec == YearInit /\ [][YearNext]_vars

ClockInit ==
  /\ ProgramInit
  /\ \E t \in Instants : clock = ClockAt(t, t)
  /\ worksheets = <<SeasonTitle(<<"1">>)>>
  /\ chat = NoChat

ClockNext == ClockAdvance \/ ClockSetBack

ClockSpec == ClockInit /\ [][ClockNext]_vars

\* ----------------------------------------------------------------- emoji chain

\* self._threshold = random.randint(3, 7): the smallest threshold
MinThreshold == 3

Thresholds == MinThreshold..MaxThreshold

\* The members who post in the channel, and what they post: the custom emoji of the
\* chain or some other text.
Members == {"m1", "m2", "m3", "m4"}
Contents == {"emoji", "text"}

\* A message of the channel.  h is the position of the on_message handler the message
\* started ("history": about to read the history; "sleep": in asyncio.sleep before
\* the send; "done"), and win is, for a message the bot sent, the number of messages
\* its handler had read.
Message(author, content, h, win) == [author |-> author, content |-> content, h |-> h, win |-> win]

\* ctx.history(limit=self._threshold): the latest messages of the channel
History(messages, limit) ==
  SubSeq(messages, IF Len(messages) > limit THEN Len(messages) - limit + 1 ELSE 1, Len(messages))

\* if self.bot.user.id in authors: return
BotInAuthors(window) == \E i \in DOMAIN window : window[i].author = "bot"

\* len(messages) >= threshold, the bot not among the authors, every message the emoji
\* and no author twice (no message is edited here)
JoinsChain(window, threshold) ==
  /\ Len(window) >= threshold
  /\ ~BotInAuthors(window)
  /\ \A i \in DOMAIN window : window[i].content = "emoji"
  /\ \A i, j \in DOMAIN window : window[i].author = window[j].author => i = j

\* Everything but the channel.
others ==
  <<week, dow, settings, seed_data, active_season_number, ready, ledger, channel, pc, req,
    loop, sub, submitted, budget, clock, worksheets>>

\* A member posts a message: discord.py starts on_message for it, which returns at
\* once when the content is not a custom emoji.
Post(m, c) ==
  /\ Cardinality({i \in DOMAIN chat.messages : chat.messages[i].author # "bot"}) < MaxPosts
  /\ chat' = [chat EXCEPT !.messages =
                Append(@, Message(m, c, IF c = "emoji" THEN "history" ELSE "done", 0))]
  /\ UNCHANGED others

\* messages = [message async for message in ctx.history(limit=self._threshold)] and
\* the tests that follow it, up to await asyncio.sleep(self._timeout)
ReadHistory(i) ==
  /\ i \in DOMAIN chat.messages
  /\ chat.messages[i].h = "history"
  /\ LET window == History(chat.messages, chat.threshold)
     IN chat' = [chat EXCEPT !.messages[i].h =
                                IF JoinsChain(window, chat.threshold) THEN "sleep" ELSE "done",
                             !.messages[i].win = Len(window)]
  /\ UNCHANGED others

\* asyncio.sleep is over: await ctx.send(emoji); self._threshold = random.randint(3, 7).
\* on_message for the bot's own message returns at ctx.author.bot.
Send(i) ==
  /\ i \in DOMAIN chat.messages
  /\ chat.messages[i].h = "sleep"
  /\ \E t \in Thresholds :
       chat' = [messages |-> Append([chat.messages EXCEPT ![i].h = "done"],
                                    Message("bot", "emoji", "done", chat.messages[i].win)),
                threshold |-> t]
  /\ UNCHANGED others

\* EmojiChain.__init__: self._threshold = random.randint(3, 7)
ChainInit ==
  /\ ProgramInit
  /\ clock = ClockAt(Instant(7, 0), Instant(7, 0))
  /\ worksheets = <<SeasonTitle(<<"1">>)>>
  /\ \E t \in Thresholds : chat = [messages |-> <<>>, threshold |-> t]

ChainNext ==
  \/ \E m \in Members : \E c \in Contents : Post(m, c)
  \/ \E i \in 1..(2 * MaxPosts) : ReadHistory(i)
  \/ \E i \in 1..(2 * MaxPosts) : Send(i)

ChainSpec == ChainInit /\ [][ChainNext]_vars

\* ---------------------------------------------------------------------- claims

Names == Users \cup Runners

\* The week a Friday firing of the week-refresh closes.
Closing == ClosingWeek(loop["wr"].week)

\* C1: within one Friday firing of the week-refresh, the auto-DNF step has completed
\* or been skipped by the time the cache refresh reads the new week's settings.
C1_DnfBeforeRefresh ==
  loop["wr"].refreshSawDnf \in {"none", "skipped", "done"}

C3_BackToIdle ==
  \A a \in Loops : (loop[a].returned \/ loop[a].raised = 2) => Sleeping(a)

\* C4: a Friday firing whose should_extend check held has appended no auto-DNF row:
\* the ledger holds none for the closing week.
C4_NoDnfWhenExtended ==
  (loop["wr"].fired /\ loop["wr"].ext = "yes") =>
    /\ loop["wr"].appended = {}
    /\ \A u \in Names : AutoRows(Closing, u) = 0

\* The firing skipped for the extension although the closing week had submissions
\* and a roster runner without one.
C4_Witness ==
  /\ loop["wr"].fired /\ loop["wr"].ext = "yes" /\ loop["wr"].returned
  /\ get_submissions(Closing, ledger) # {}
  /\ Runners \ get_submissions(Closing, ledger) # {}

\* C5: a Friday firing whose should_extend check held has made no provisioning call
\* and has not replaced the cached artifact.
C5_SkipLeavesCache ==
  (loop["wr"].fired /\ loop["wr"].ext = "yes") => ~loop["wr"].provisioned

\* C6: a Friday firing that returned, with no submission row in the ledger for the
\* closing week, has appended no auto-DNF row and has refreshed the cached artifact:
\* for as long as the firing's week lasts, the cache holds an artifact of that week.
C6_NoSubmissionsNoDnf ==
  (loop["wr"].fired /\ loop["wr"].returned /\ \A u \in Names : RealRows(Closing, u) = 0) =>
    /\ loop["wr"].appended = {}
    /\ \A u \in Names : AutoRows(Closing, u) = 0
    /\ loop["wr"].provisioned
    /\ week = loop["wr"].week => seed_data # NoArtifact /\ seed_data.week = week

C6_Witness ==
  /\ loop["wr"].fired /\ loop["wr"].returned /\ loop["wr"].ext = "no"
  /\ loop["wr"].submissions = {}
  /\ \A u \in Names : RealRows(Closing, u) = 0
  /\ Runners # {}
  /\ seed_data.week = week

\* C7: after a week-refresh ran its auto-DNF step, a name has an auto-DNF row for the
\* closing week exactly when it is a roster runner with no submission row for that
\* week, and then it has one such row.
C7_DnfOnlyForAbsentRunners ==
  (loop["wr"].fired /\ loop["wr"].dnf = "done") =>
    \A u \in Names :
      AutoRows(Closing, u) = IF u \in Runners /\ RealRows(Closing, u) = 0 THEN 1 ELSE 0

\* C8: the missing set a loop computes from the roster R and a non-empty set S of
\* submitted names is R minus S.
C8_MissingIsSetDifference ==
  \A a \in Loops :
    (loop[a].computed /\ loop[a].submissions # {}) =>
      loop[a].missing = loop[a].runners \ loop[a].submissions

\* C9: a Thursday firing of the reminder has sent a message only if should_extend did
\* not hold, there was a submission and a roster runner was missing; then it sent one
\* message, listing the missing runners and the next 21:00 as the deadline; and a
\* firing that returned in that case has sent it.
C9_ReminderOnlyWhenMissing ==
  LET l == loop["rm"]
      due == l.ext = "no" /\ l.submissions # {} /\ (Runners \ l.submissions) # {}
  IN /\ l.sent <= 1
     /\ l.sent = 1 =>
          /\ due
          /\ channel # <<>>
          /\ channel[Len(channel)].week = l.week
          /\ channel[Len(channel)].members = Runners \ l.submissions
          /\ channel[Len(channel)].deadline = <<l.week + 1, FRIDAY>>
     /\ (l.fired /\ l.returned /\ l.computed /\ due) => l.sent = 1

\* C10: a league submit called after an earlier submit of the same user for the same
\* week appended its row and ended is answered "already submitted" (unless a
\* collaborator call failed) and appends nothing: the ledger holds one submission
\* row of that user for that week.
C10_DuplicateRejected ==
  \A h \in Handlers :
    sub[h].after =>
      /\ sub[h].pc = "idle"
      /\ sub[h].result \in {"already", "error"}
      /\ RealRows(sub[h].week, sub[h].user) + AutoRows(sub[h].week, sub[h].user) = 1

C10_Witness ==
  \E h \in Handlers :
    /\ sub[h].after /\ sub[h].result = "already"
    /\ RealRows(sub[h].week, sub[h].user) + AutoRows(sub[h].week, sub[h].user) = 1

\* The Friday whose 21:00 opens the window an instant lies in: the window runs from
\* that Friday's 21:00:00 up to, not including, the next Friday's 21:00:00.
WindowStart(t) ==
  CHOOSE f \in (t.day - 7)..t.day :
    /\ f % 7 = FRIDAY
    /\ Seconds(Instant(f, BoundaryHours * 3600)) <= Seconds(t)
    /\ Seconds(t) < Seconds(Instant(f + 7, BoundaryHours * 3600))

\* C16: two instants of the same Friday-21:00 to Friday-21:00 window have the same
\* week key, and the key is the date of the Friday on which the window starts.
C16_SameWindowSameKey ==
  /\ clock.key = WindowStart(clock.now)
  /\ WindowStart(clock.prev) = WindowStart(clock.now) => clock.prevKey = clock.key

\* Two instants of one window on different days, the later one on the window's last
\* day, a Friday before 21:00.
C16_Witness ==
  /\ clock.prev.day < clock.now.day
  /\ WindowStart(clock.prev) = WindowStart(clock.now)
  /\ weekday(clock.now) = FRIDAY /\ clock.now.sec = BoundaryHours * 3600 - 1
  /\ clock.prevKey = clock.key

\* C17: the week key never decreases as the wall clock advances; instants of
\* different windows have different keys; the key at Friday 20:59:59 is the date of
\* the Friday before and the key at Friday 21:00:00 is the date of that Friday.
C17_KeyChangesAtBoundary ==
  /\ clock.prevKey <= clock.key
  /\ WindowStart(clock.prev) # WindowStart(clock.now) => clock.prevKey # clock.key
  /\ (weekday(clock.now) = FRIDAY /\ clock.now.sec = BoundaryHours * 3600 - 1)
       => clock.key = clock.now.day - 7
  /\ (weekday(clock.now) = FRIDAY /\ clock.now.sec = BoundaryHours * 3600)
       => clock.key = clock.now.day

\* The clock goes from Friday 20:59:59 to 21:00:00 of the same day and the key changes.
C17_Witness ==
  /\ clock.prev = Instant(clock.now.day, BoundaryHours * 3600 - 1)
  /\ clock.now.sec = BoundaryHours * 3600
  /\ weekday(clock.now) = FRIDAY
  /\ clock.prevKey = clock.now.day - 7 /\ clock.key = clock.now.day

\* The week whose extension a loop's firing asks about: the closing week in
\* _week_refresh, the current week in _reminder.
ExtendedWeek(a) == IF a = "wr" THEN ClosingWeek(loop[a].week) ELSE loop[a].week

\* C15: should_extend_week returned true exactly when a seed_name row was stored
\* under the next week's key and its value was the derived seed name of the current
\* week: false when there was no row, false when the row held another value.
C15_ExtendIffNextIsDerived ==
  \A a \in Loops :
    loop[a].ext # "unknown" =>
      /\ loop[a].ext = "yes" <=>
            (loop[a].row # None /\ loop[a].row = DerivedSeedName(ExtendedWeek(a)))
      /\ loop[a].row = None => loop[a].ext = "no"
      /\ (loop[a].row # None /\ loop[a].row # DerivedSeedName(ExtendedWeek(a)))
           => loop[a].ext = "no"

\* The reminder found a seed_name row for the next week holding another value than
\* the current week's derived name, and did not extend.
C15_Witness ==
  /\ loop["rm"].ext = "no"
  /\ loop["rm"].row # None
  /\ loop["rm"].row # DerivedSeedName(loop["rm"].week)

\* The (week, name) pairs of the derivations on record: those of should_extend_week in
\* the loops, and those of _league_seed, in flight or cached, made without a stored
\* seed_name.
Derivations ==
  {<<ExtendedWeek(a), loop[a].current_seed_name>> : a \in {b \in Loops : loop[b].ext # "unknown"}}
    \cup {<<req[p].week, req[p].seed_name>> :
             p \in {q \in Procs : req[q] # NoRequest /\ req[q].stored = None}}
    \cup (IF seed_data # NoArtifact /\ seed_data.stored = None
            THEN {<<seed_data.week, seed_data.seed_header>>} ELSE {})

C19_StoredSeedNameVerbatim ==
  /\ \A p \in Procs :
       req[p] # NoRequest =>
         req[p].seed_name = IF req[p].stored # None THEN req[p].stored
                            ELSE DerivedSeedName(req[p].week)
  /\ seed_data # NoArtifact =>
       seed_data.seed_header = IF seed_data.stored # None THEN seed_data.stored
                               ELSE DerivedSeedName(seed_data.week)

C19_Witness ==
  /\ seed_data # NoArtifact
  /\ seed_data.stored = 42 /\ seed_data.seed_header = 42
  /\ StoredSeedName(settings, seed_data.week) = 42

\* Where the caller of a failed _refresh_cached_data is found: the loop in its error
\* handler or ended, cog_load failed, the admin command ended.
AfterFailedRefresh(p) ==
  IF p \in Loops THEN {"backoff", "stopped"} ELSE {RefreshRaised(p)}

\* C13: the cached artifact changes only in a step in which a provisioning call
\* returns, and then to the artifact of that call's request; a step in which a
\* provisioning call fails leaves the cache as it was, makes no second call and hands
\* the failure to the caller.
C13_CacheOnlyFromProvisioning ==
  [][/\ seed_data' # seed_data =>
          \E p \in Procs : \E rnd \in RandomNames :
            /\ pc[p] = "seed_api" /\ pc'[p] = "season"
            /\ seed_data' = get_seed(req[p], rnd)
     /\ \A p \in Procs :
          (pc[p] = "seed_api" /\ pc'[p] # "season" /\ pc'[p] # "seed_api") =>
            /\ seed_data' = seed_data
            /\ req'[p] = NoRequest
            /\ pc'[p] \in AfterFailedRefresh(p)]_vars

\* The week-refresh's provisioning call failed on Friday and the cache still holds
\* the artifact of the week before.
C13_Witness ==
  /\ pc["wr"] = "backoff"
  /\ loop["wr"].raised = 1 /\ ~loop["wr"].provisioned
  /\ seed_data # NoArtifact
  /\ seed_data.week = ClosingWeek(loop["wr"].week)

\* C14: when the refresh of a league set or league clear of the current week ends,
\* the cache holds the artifact of the settings as they are then; a league set or
\* league clear of another week changes neither the cache nor the season number.
C14_CacheFollowsSettings ==
  [][/\ (pc["adm"] = "season" /\ pc'["adm"] = "idle") =>
          \E rnd \in RandomNames :
            seed_data' = get_seed(LeagueSeedRequest(week, settings), rnd)
     /\ (pc["adm"] = "idle" /\ settings' # settings /\ pc'["adm"] = "idle") =>
          /\ seed_data' = seed_data
          /\ active_season_number' = active_season_number]_vars

\* C20: a league set of (week, name, value) for a week and name that have a row
\* already, with the same value or another one, leaves exactly one row of that week
\* and name, holding the value set; all other rows are as before.
C20_UpsertLastWriteWins ==
  [][\A w \in {week, NextWeek(week)} : \A n \in SettingNames : \A v \in SettingValues :
       (LeagueSet(w, n, v) /\ NameConflicts(settings, SettingRow(w, n, v)) # {}) =>
         /\ {r \in settings' : r.date = w /\ r.name = n} = {SettingRow(w, n, v)}
         /\ {r \in settings' : ~(r.date = w /\ r.name = n)}
              = {r \in settings : ~(r.date = w /\ r.name = n)}]_vars

\* C21: a league set with pairwise distinct names leaves, for every entry, the row
\* (week, name, value) in the table, also when two entries carry the same value and
\* when an entry's value is stored under another name of the week.
C21_SetStoresEveryEntry ==
  [][/\ \A w \in {week, NextWeek(week)} : \A n \in SettingNames : \A v \in SettingValues :
          LeagueSet(w, n, v) => SettingRow(w, n, v) \in settings'
     /\ \A w \in {week, NextWeek(week)} : \A entries \in EntryLists :
          LeagueSetEntries(w, entries) =>
            \A i \in 1..Len(entries) : SettingRow(w, entries[i][1], entries[i][2]) \in settings'
    ]_vars

\* C22: a league clear of a week leaves no row of that week and leaves the rows of
\* every other week as they were; a league view of a week answers "no settings"
\* exactly when the table has no row of that week, and lists the week's rows otherwise.
C22_ClearDeletesWeekRows ==
  [][\A w \in {week, NextWeek(week)} :
       /\ LeagueClear(w) =>
            /\ {r \in settings' : r.date = w} = {}
            /\ {r \in settings' : r.date # w} = {r \in settings : r.date # w}
       /\ LeagueView(w) =>
            /\ sub'[1].result = "no_settings" <=> {r \in settings : r.date = w} = {}
            /\ sub'[1].listed = {r \in settings : r.date = w}]_vars

\* One set or clear command has run, on the current week, and its refresh is
\* pending; the week has no row now, so the command was a league clear of a week
\* that had rows (a view before it would have listed them); the view of the week
\* answered "no settings", and the next week still has its rows.
C22_Witness ==
  /\ budget = MaxCommands - 1
  /\ pc["adm"] = "seed_read"
  /\ {r \in settings : r.date = week} = {}
  /\ {r \in settings : r.date = NextWeek(week)} # {}
  /\ sub[1].cmd = "view" /\ sub[1].week = week /\ sub[1].result = "no_settings"

\* The users the claim calls league administrators.
LeagueAdmins == {u \in Invokers : is_owner(u) \/ (IsMember(u) /\ get_role(u))}

\* C24: a league set, league view or league clear invoked by a user who is neither
\* the bot's owner nor a member holding the league admin role changes neither the
\* settings table nor the cached artifact, starts no refresh, and is answered with
\* the permission-denied message.
C24_AdminOnly ==
  [][\A u \in Invokers \ LeagueAdmins : \A w \in {week, NextWeek(week)} :
       ((\E n \in SettingNames : \E v \in SettingValues : InvokeLeagueSet(u, w, n, v))
          \/ InvokeLeagueView(u, w) \/ InvokeLeagueClear(u, w)) =>
         /\ settings' = settings
         /\ seed_data' = seed_data
         /\ pc' = pc /\ req' = req
         /\ sub'[1].user = u /\ sub'[1].result = "denied"]_vars

\* A holder of the role who invoked league clear outside the guild was denied, with
\* rows stored for the week.
C24_Witness ==
  /\ sub[1].cmd = "clear" /\ sub[1].user = "admin_dm" /\ sub[1].result = "denied"
  /\ settings # {}

\* The season number N of a title of the form "S<N> <Purpose>", N of one or more
\* digits; 0 for any other title.
RECURSIVE DigitsValue(_)
DigitsValue(ds) ==
  IF ds = <<>> THEN 0 ELSE 10 * DigitsValue(SubSeq(ds, 1, Len(ds) - 1)) + DigitValue(ds[Len(ds)])

TitleSeason(t) ==
  IF \E k \in 2..(Len(t) - 2) :
       /\ t[1] = "S" /\ t[k + 1] = " "
       /\ \A i \in 2..k : IsDigit(t[i])
    THEN LET k == CHOOSE j \in 2..(Len(t) - 2) :
                    t[1] = "S" /\ t[j + 1] = " " /\ \A i \in 2..j : IsDigit(t[i])
         IN DigitsValue(SubSeq(t, 2, k))
    ELSE 0

MaxSeason(ws) ==
  LET ns == {TitleSeason(ws[i]) : i \in DOMAIN ws}
  IN CHOOSE n \in ns : \A o \in ns : o <= n

\* C23: once a refresh has stored the season number, it is the largest N among the
\* worksheet titles of the form "S<N> <Purpose>", whatever the order of the
\* worksheets and the number of digits of N.
C23_SeasonIsMaximum ==
  active_season_number # None => active_season_number = MaxSeason(worksheets)

\* A timer of the form [H:]MM:SS[.fraction] with MM <= 59 and SS <= 59, or "dnf" in
\* any letter case.
WellFormedTimer(value) ==
  \/ IsDnf(value)
  \/ /\ FullMatch(value)
     /\ int(Groups(value).minutes) <= 59 /\ int(Groups(value).seconds) <= 59

\* C25: a league submit whose timer is not well formed has been answered "Invalid
\* time format" and has ended there: its handler is idle, it has not run the body of
\* the command, which reads the ledger and appends the row.
C25_BadTimerRejected ==
  \A h \in Handlers :
    (sub[h].cmd = "submit" /\ ~WellFormedTimer(sub[h].timer)) =>
      sub[h].result = "invalid_time" /\ sub[h].pc = "idle"

\* C26: a league seed or league submit in which a seed-API or spreadsheet call
\* failed has ended with a failure message sent to the user and the error logged,
\* and has not been run again.
C26_FailureSurfaced ==
  \A h \in Handlers :
    sub[h].result = "error" =>
      /\ sub[h].pc = "idle"
      /\ sub[h].reply.logged
      /\ sub[h].reply.message # "none"

\* The value the claim expects for option n in a request for week w made from the
\* rows read when the request was built: the stored value, or the default.
ClaimedDefault(n) ==
  CASE n = "logic_mode" -> "Standard"
    [] n = "key_mode" -> "Clues"
    [] n = "goal_mode" -> "Force Trees"
    [] n = "spawn" -> "Glades"
    [] n = "item_pool" -> "Standard"
    [] n = "relic_count" -> "8"
Expected(table, w, n) ==
  IF \E r \in table : r.date = w /\ r.name = n
    THEN (CHOOSE r \in table : r.date = w /\ r.name = n).value
    ELSE ClaimedDefault(n)

\* The requests in flight of the callers that read the table as it is now.
FreshRequests == {p \in Procs : req[p] # NoRequest /\ pc[p] = "seed_api"}

\* The options other than the relic count are sent as stored, or as their defaults.
OptionsSent(p) ==
  /\ req[p].params.path = PATHS_INHERITENCE(Expected(settings, req[p].week, "logic_mode"))
  /\ req[p].params.key_mode = KEY_MODES(Expected(settings, req[p].week, "key_mode"))
  /\ req[p].params.var = GOAL_MODES(Expected(settings, req[p].week, "goal_mode"))
  /\ req[p].params.spawn = Expected(settings, req[p].week, "spawn")
  /\ req[p].params.pool_preset = ITEM_POOLS(Expected(settings, req[p].week, "item_pool"))

\* C27 as stated: in the request of a provisioning call every scalar option, the
\* relic count included, is sent as stored, or as its default when the week has no
\* row for it.
C27_DefaultsAndStored ==
  \A p \in FreshRequests :
    /\ OptionsSent(p)
    /\ req[p].params.relics = Expected(settings, req[p].week, "relic_count")

\* C27 amended: logic, key mode, goal mode, spawn and item pool are sent as stored or
\* as their defaults; the relic count is sent, as stored or as 8, when the goal mode
\* is World Tour, and is not sent at all otherwise.
C27_DefaultsAndStored_Amended ==
  \A p \in FreshRequests :
    /\ OptionsSent(p)
    /\ req[p].params.relics =
         IF Expected(settings, req[p].week, "goal_mode") = "World Tour"
           THEN Expected(settings, req[p].week, "relic_count") ELSE ""

\* cog_load's request from a table with a stored key mode and goal mode World Tour
\* and no row for the logic, the spawn and the relic count: defaults and stored
\* values side by side, relics=8.
C27_Witness ==
  /\ pc["load"] = "seed_api"
  /\ {r.name : r \in SettingRows(settings, week)} = {"key_mode", "goal_mode", "item_pool"}
  /\ req["load"].params.key_mode = "Shards" /\ req["load"].params.var = "WorldTour"
  /\ req["load"].params.path = StandardPaths /\ req["load"].params.spawn = "Glades"
  /\ req["load"].params.relics = "8"

\* derive_seed_name(week key) as the claim C28 reads it: the stored seed_name of the
\* week when it has one, the derived integer otherwise.
ClaimedSeedName(table, w) ==
  IF StoredSeedName(table, w) # None THEN StoredSeedName(table, w) ELSE DerivedSeedName(w)

\* C28: each time a loop asks should_extend_week, the answer is true exactly when the
\* next week has a stored seed_name equal to the seed name of the current week, which
\* is the current week's stored seed_name when it has one and the derived integer
\* otherwise; so with X stored under both weeks the answer is true.
C28_ExtendUsesStoredOverride ==
  [][\A a \in Loops :
       (pc[a] = "extend" /\ pc'[a] # "extend") =>
         LET cur == ExtendedWeek(a)
             row == StoredSeedName(settings, NextWeek(cur))
         IN loop'[a].ext = "yes" <=>
              (row # None /\ row = ClaimedSeedName(settings, cur))]_vars

\* C29: when the first run of the week-refresh body wrote its auto-DNF rows and the
\* body was run a second time for the same closing week, reading the ledger after
\* that append, the second run appended no row.
C29_SecondRunAppendsNothing ==
  (loop["wr"].attempt = 2 /\ loop["wr"].landed /\ loop["wr"].dnf = "done") =>
    loop["wr"].appended = {}

C31_GateImpliesCache ==
  /\ [](ready => (seed_data # NoArtifact /\ active_season_number # None))
  /\ [][ready => ready']_vars

\* The gate is set and the cache is populated after a week-refresh whose provisioning
\* call failed.
C31_Witness ==
  /\ ready /\ seed_data # NoArtifact /\ active_season_number # None
  /\ loop["wr"].fired /\ loop["wr"].raised >= 1 /\ ~loop["wr"].provisioned

\* C32: a loop that is about to read the submissions of the ledger finds the
\* readiness gate set and the season number set.
C32_LoopsReadBehindGate ==
  \A a \in Loops : pc[a] = "subs" => (ready /\ active_season_number # None)

\* A refresh of p that has not yet written the cache.
WritePending(p) == pc[p] \in {"seed_read", "seed_api"}

\* C33: when a refresh of the week-refresh loop or of an admin command writes the
\* cache while no other refresh is still to write it, the artifact written is the one
\* of the settings of the current week as they are then: never one of settings that
\* were overwritten while the refresh was running.
C33_LastRefreshIsLatest ==
  [][\A p \in {"wr", "adm"} :
       (/\ pc[p] = "seed_api" /\ pc'[p] = "season"
        /\ \A q \in {"wr", "adm"} \ {p} : ~WritePending(q))
       => \E rnd \in RandomNames :
            seed_data' = get_seed(LeagueSeedRequest(week, settings), rnd)]_vars

\* C34: a league submit that recorded its row under week key W and answered with a
\* spoiler link has answered with the link of an artifact provisioned for W.
C34_SpoilerOfSubmittedWeek ==
  \A h \in Handlers :
    (sub[h].cmd = "submit" /\ sub[h].result = "accepted") =>
      (sub[h].spoiler # NoArtifact /\ sub[h].spoiler.week = sub[h].week)

\* C35: when week w was extended (the seed_name stored for w + 1 is the derived name of
\* w), a roster runner with a real submission row under w has no auto-DNF row under
\* w + 1.
C35_NoDnfAfterExtension ==
  \A w \in -1..MaxWeek : \A u \in Runners :
    (/\ should_extend_week(w, settings)
     /\ RealRows(w, u) > 0)
    => AutoRows(NextWeek(w), u) = 0

\* C36: every firing of the week-refresh and of the reminder, that is every state in
\* which a loop's coroutine or error handler is running, is followed by a state in
\* which the loop is idle, sleeping until its next tick.
C36_FiringsReturnToIdle ==
  \A a \in Loops : (pc[a] \notin {"idle", "stopped"}) ~> (pc[a] = "idle")

\* C37: the coroutine of the week-refresh runs past its weekday test only on Fridays
\* and that of the reminder only on Thursdays; a loop called at the 21:00 of another
\* day has returned at once: it made no collaborator call, appended no row, replaced
\* no cached value and sent no message.
C37_OffDayTickDoesNothing ==
  \A a \in Loops :
    LET day == IF a = "wr" THEN FRIDAY ELSE THURSDAY
        l == loop[a]
    IN /\ pc[a] \notin {"idle", "stopped"} => dow = day
       /\ (pc[a] = "idle" /\ l.attempt >= 1 /\ dow # day) =>
            /\ ~l.fired /\ l.returned /\ l.attempt = 1 /\ l.raised = 0
            /\ ~l.provisioned /\ ~l.computed /\ l.appended = {} /\ l.sent = 0
            /\ l.ext = "unknown" /\ req[a] = NoRequest

\* 21:00 of a Saturday has passed: both loops were called and returned at once, with
\* submissions in the ledger that the week-refresh would act on on a Friday.
C37_Witness ==
  /\ dow = SATURDAY
  /\ \A a \in Loops : pc[a] = "idle" /\ loop[a].attempt = 1 /\ loop[a].returned
  /\ get_submissions(week, ledger) # {}

\* The duration in milliseconds that a recorded time HH:MM:SS.mmm denotes.
RecordedMillis(text) ==
  LET n == Len(text)
  IN ((int(SubSeq(text, 1, n - 10)) * 60 + int(SubSeq(text, n - 8, n - 7))) * 60
        + int(SubSeq(text, n - 5, n - 4))) * 1000
     + int(SubSeq(text, n - 2, n))

\* The duration in milliseconds of a timer [H:]MM:SS[.f], the fraction cut to whole
\* milliseconds: its first three digits, with zeros for the digits it does not have.
TimerMillis(value) ==
  LET g == Groups(value)
  IN ((int(g.hours) * 60 + int(g.minutes)) * 60 + int(g.seconds)) * 1000
     + int(Take3(g.milliseconds \o <<"0", "0", "0">>))

\* C38: the time recorded for an accepted timer [H:]MM:SS[.f] is of the form
\* HH:MM:SS.mmm and denotes the duration of the timer cut to whole milliseconds; a
\* missing hour or fraction is recorded as zero.
C38_RecordedTimeIsTimer ==
  \A h \in Handlers :
    (/\ sub[h].cmd = "submit" /\ sub[h].result = "accepted"
     /\ WellFormedTimer(sub[h].timer) /\ ~IsDnf(sub[h].timer))
    => /\ Len(sub[h].recorded) >= 12
       /\ RecordedMillis(sub[h].recorded) = TimerMillis(sub[h].timer)

\* C39: whenever the bot posted the emoji, no other message of the bot was among the
\* messages of the channel just before it, as many as its handler had read.
C39_OneContributionPerChain ==
  \A j \in DOMAIN chat.messages :
    chat.messages[j].author = "bot" =>
      \A i \in DOMAIN chat.messages :
        (i < j /\ i >= j - chat.messages[j].win) => chat.messages[i].author # "bot"

\* C11: in every reachable state, with league submit handlers of one runner running
\* concurrently, the ledger holds at most one submission row that is not an auto-DNF
\* row per week and runner.
C11_OneRealRowPerRunner ==
  \A w \in 0..MaxWeek : \A u \in Users : RealRows(w, u) <= 1

====
